---------------------------- MODULE Spec2Model ----------------------------
(***************************************************************************)
(* Model of the Gatwick METAR service: the webhook handler (app.py), the   *)
(* two-source METAR fetch and the two schema parsers (metar_service.py)    *)
(* and the WhatsApp sink (twilio_service.py).                              *)
(*                                                                         *)
(* Representation.                                                         *)
(*  - A decoded JSON leaf is a record [t, n, s]: t is "absent" (the key is *)
(*    missing from its mapping), "null", "str" (text s) or "num" (n).      *)
(*  - A nested JSON object is a record tagged t = "obj" holding its keys,  *)
(*    a JSON array a record tagged t = "list" holding the sequence items.  *)
(*  - A text is the sequence of its lines: "\n\n".join(response) is the    *)
(*    sequence response itself, a one-line text a sequence of length one.  *)
(*  - The emoji that start the display lines are written as ASCII words    *)
(*    in brackets: "[takeoff]" stands for the departure emoji.             *)
(*  - A Python call either returns a value or raises: a result is a record *)
(*    [raised, text, exc, ran].                                            *)
(***************************************************************************)
EXTENDS Integers, Sequences, FiniteSets, TLC

VARIABLES
    apiKey,          \* CHECKWX_API_KEY is set (read once at import, never written)
    pc,              \* position of the webhook handler
    request,         \* the inbound request: unreadable, keyword or other
    calls,           \* provider requests made by this invocation, in order
    primaryOutcome,  \* how the Primary attempt of this invocation ended
    fallbackOutcome, \* how the Fallback attempt of this invocation ended
    received,        \* the provider responses received by this invocation
    metar_data,      \* webhook's local metar_data
    parse,           \* result of parse_metar_for_human in this invocation
    outbox,          \* text about to be handed to send_whatsapp_message
    handler,         \* which try block the pending send sits in
    sent,            \* texts handed to the sink by this invocation, in order
    delivered,       \* what the sink returned for each of them
    response,        \* HTTP status the webhook returned ("none" while running)
    prev             \* inputs and outcome of a remembered earlier invocation

vars == <<apiKey, pc, request, calls, primaryOutcome, fallbackOutcome,
          received, metar_data, parse, outbox, handler, sent, delivered,
          response, prev>>

-----------------------------------------------------------------------------
(* Bounds of the model.                                                    *)

\* Longest cloud-layer list a provider returns.
MaxLayers == 2

-----------------------------------------------------------------------------
(* Decoded JSON values.                                                    *)

Absent == [t |-> "absent", n |-> 0, s |-> ""]

Null == [t |-> "null", n |-> 0, s |-> ""]

StrV(x) == [t |-> "str", n |-> 0, s |-> x]

NumV(x) == [t |-> "num", n |-> x, s |-> ""]

\* The default "N/A" of the .get calls.
NA == StrV("N/A")

\* Python truthiness of a leaf; a missing key reads as the default "".
Truthy(v) ==
    CASE v.t = "str" -> v.s # ""
      [] v.t = "num" -> v.n # 0
      [] OTHER -> FALSE

\* str(v) as the f-strings apply it.
PyStr(v) ==
    CASE v.t = "str" -> v.s
      [] v.t = "num" -> ToString(v.n)
      [] OTHER -> "None"

\* d.get(key, default) on a mapping d.
Get(d, key, default) == IF d[key].t = "absent" THEN default ELSE d[key]

\* Strings float() accepts, with their values.
NumericStrings == {"9000", "6"}

ParseFloat(s) == IF s = "9000" THEN 9000 ELSE 6

\* float(v) succeeds.
FloatOk(v) == v.t = "num" \/ (v.t = "str" /\ v.s \in NumericStrings)

Float(v) == IF v.t = "num" THEN v.n ELSE ParseFloat(v.s)

\* f"{x:.1f}" for x = tenths / 10.
Fixed1(tenths) == ToString(tenths \div 10) \o "." \o ToString(tenths % 10)

-----------------------------------------------------------------------------
(* Results of a call.                                                      *)

\* The call returned text; ran lists the schema parsers it ran.
Returns(text, ran) ==
    [called |-> TRUE, raised |-> FALSE, text |-> text, exc |-> "", ran |-> ran]

\* The call raised an exception whose str() is exc.
Raises(exc, ran) ==
    [called |-> TRUE, raised |-> TRUE, text |-> <<>>, exc |-> exc, ran |-> ran]

\* The call was not made.
NotCalled ==
    [called |-> FALSE, raised |-> FALSE, text |-> <<>>, exc |-> "", ran |-> <<>>]

-----------------------------------------------------------------------------
(* Shared formatting of both schema parsers.                               *)

HeaderLine == "[takeoff] *GATWICK AIRPORT (EGKK) METAR* [landing]"

NoCloudData == "No cloud data"

\* f"{code} at {altitude} ft"
LayerEntry(code, altitude) == PyStr(code) \o " at " \o PyStr(altitude) \o " ft"

\* ", ".join(entries)
RECURSIVE JoinComma(_)
JoinComma(entries) ==
    IF Len(entries) = 0 THEN ""
    ELSE IF Len(entries) = 1 THEN entries[1]
    ELSE entries[1] \o ", " \o JoinComma(Tail(entries))

\* wind_info: direction and speed, the gust only when it is truthy.
WindInfo(direction, speed, gust) ==
    LET base == PyStr(direction) \o " deg at " \o PyStr(speed) \o " knots"
    IN  IF Truthy(gust)
        THEN base \o ", gusting to " \o PyStr(gust) \o " knots"
        ELSE base

\* The seven display lines, in the order of the response list.
ReportLines(time, temp, wind, vis, clouds, raw) ==
    << HeaderLine,
       "[clock] Observed: " \o time,
       "[thermometer] Temperature: " \o temp \o " deg C",
       "[wind] Wind: " \o wind,
       "[eye] Visibility: " \o vis,
       "[cloud] Clouds: " \o clouds,
       "[chart] Raw METAR: " \o raw >>

-----------------------------------------------------------------------------
(* parse_checkwx_metar: the Primary (CheckWX) schema.                      *)

\* x.get(key, "N/A") on the value of metar_data.get(outer, {}): a missing
\* outer key reads the default {} and yields "N/A".
NestedGet(d, outer, key) ==
    IF d[outer].t = "absent" THEN NA ELSE Get(d[outer], key, NA)

\* metar_data.get(outer, {}).get(...) raises AttributeError: the outer value
\* is present and is no mapping (null, text, number).
NestedRaises(d, outer) == d[outer].t \notin {"absent", "obj"}

\* A layer object of the Primary schema that has no key at all: {}.
CheckwxLayerEmpty(l) == l.code.t = "absent" /\ l.base_feet_agl.t = "absent"

\* metar_data["clouds"] is truthy.
CheckwxCloudsTruthy(c) ==
    CASE c.t = "list" -> Len(c.items) > 0
      [] c.t = "obj" -> ~CheckwxLayerEmpty(c)
      [] OTHER -> Truthy(c)

\* The for loop over metar_data["clouds"] raises: the value is no list (a
\* mapping iterates over its keys, which are text and have no .get; text
\* iterates over its characters; a number is not iterable), or an item of
\* the list is no mapping.
CheckwxCloudsRaises(c) ==
    /\ c.t # "absent"
    /\ CheckwxCloudsTruthy(c)
    /\ \/ c.t # "list"
       \/ \E i \in 1..Len(c.items) : c.items[i].t # "obj"

\* The condition that appends a layer: if code and altitude.
CheckwxLayerKept(l) ==
    Truthy(Get(l, "code", StrV(""))) /\ Truthy(Get(l, "base_feet_agl", StrV("")))

\* cloud_layers after the loop over a list of layer objects.
RECURSIVE CheckwxCloudLayers(_)
CheckwxCloudLayers(items) ==
    IF Len(items) = 0 THEN <<>>
    ELSE LET l == Head(items)
             rest == CheckwxCloudLayers(Tail(items))
         IN  IF CheckwxLayerKept(l)
             THEN <<LayerEntry(l.code, l.base_feet_agl)>> \o rest
             ELSE rest

\* The clouds text of the Primary schema (lines 121-131).
CheckwxClouds(d) ==
    LET c == d.clouds
    IN  IF c.t = "list" /\ Len(c.items) > 0
        THEN LET cloud_layers == CheckwxCloudLayers(c.items)
             IN  IF Len(cloud_layers) > 0 THEN JoinComma(cloud_layers)
                 ELSE NoCloudData
        ELSE NoCloudData

\* visibility_km (line 118) raises: float() of a value that is not "N/A" and
\* not a number.
CheckwxVisibilityRaises(d) ==
    LET visibility == NestedGet(d, "visibility", "meters")
    IN  visibility # NA /\ ~FloatOk(visibility)

\* f"{float(visibility)/1000:.1f} km", rounded to the nearest tenth.
CheckwxVisibility(d) ==
    LET visibility == NestedGet(d, "visibility", "meters")
    IN  IF visibility = NA THEN "N/A"
        ELSE Fixed1((Float(visibility) + 50) \div 100) \o " km"

\* The try block of parse_checkwx_metar raises.
CheckwxExtractionRaises(d) ==
    \/ d.kind # "map"
    \/ NestedRaises(d, "temperature")
    \/ NestedRaises(d, "wind")
    \/ NestedRaises(d, "visibility")
    \/ CheckwxVisibilityRaises(d)
    \/ CheckwxCloudsRaises(d.clouds)

\* The text the try block of parse_checkwx_metar returns.
CheckwxReport(d) ==
    ReportLines(PyStr(Get(d, "observed", NA)),
                PyStr(NestedGet(d, "temperature", "celsius")),
                WindInfo(NestedGet(d, "wind", "degrees"),
                         NestedGet(d, "wind", "speed_kts"),
                         IF d.wind.t = "absent" THEN StrV("")
                         ELSE Get(d.wind, "gust_kts", StrV(""))),
                CheckwxVisibility(d),
                CheckwxClouds(d),
                PyStr(Get(d, "raw", NA)))

\* Mutant of CheckwxDegraded: the except block reads the other schema's key.
CheckwxDegradedWrongKey(d) ==
    <<"Gatwick METAR: " \o PyStr(Get(d, "raw_text", StrV("Data unavailable")))>>

\* The except block of parse_checkwx_metar: the raw METAR on one line.
CheckwxDegraded(d) ==
    <<"Gatwick METAR: " \o PyStr(Get(d, "raw", StrV("Data unavailable")))>>

parse_checkwx_metar(d) ==
    IF ~CheckwxExtractionRaises(d)
    THEN Returns(CheckwxReport(d), <<"parse_checkwx_metar">>)
    ELSE IF d.kind = "map"
    THEN Returns(CheckwxDegraded(d), <<"parse_checkwx_metar">>)
    ELSE Raises("object has no attribute 'get'", <<"parse_checkwx_metar">>)

-----------------------------------------------------------------------------
(* parse_aviationweather_metar: the Fallback (aviationweather.gov) schema. *)

\* Texts datetime.strptime(..., "%Y-%m-%dT%H:%M:%SZ") accepts.
ValidTimes == {"2024-01-01T05:20:00Z", "2024-11-30T23:05:59Z"}

\* The datetime strptime builds from an accepted text.
Strptime(s) ==
    IF s = "2024-01-01T05:20:00Z"
    THEN [year |-> 2024, month |-> 1, day |-> 1, hour |-> 5, minute |-> 20]
    ELSE [year |-> 2024, month |-> 11, day |-> 30, hour |-> 23, minute |-> 5]

\* %d, %H and %M: two digits.
Pad2(k) == IF k < 10 THEN "0" \o ToString(k) ELSE ToString(k)

\* %b
MonthAbbr(m) ==
    << "Jan", "Feb", "Mar", "Apr", "May", "Jun",
       "Jul", "Aug", "Sep", "Oct", "Nov", "Dec" >>[m]

\* time_obj.strftime("%d-%b-%Y %H:%M UTC")
Strftime(tm) ==
    Pad2(tm.day) \o "-" \o MonthAbbr(tm.month) \o "-" \o ToString(tm.year)
        \o " " \o Pad2(tm.hour) \o ":" \o Pad2(tm.minute) \o " UTC"

\* obs_time (lines 163-169): reformatted, or the value as it came when
\* strptime raises (the bare except).
AviationObsTime(d) ==
    LET v == d.observation_time
    IN  IF v.t = "absent" THEN "N/A"
        ELSE IF v.t = "str" /\ v.s \in ValidTimes THEN Strftime(Strptime(v.s))
        ELSE PyStr(v)

\* visibility (lines 178-185): statute miles to km, or the value with the
\* label miles when float() raises.
AviationVisibility(d) ==
    LET visibility_statute_mi == Get(d, "visibility_statute_mi", NA)
    IN  IF visibility_statute_mi = NA THEN "N/A"
        ELSE IF FloatOk(visibility_statute_mi)
        THEN Fixed1((Float(visibility_statute_mi) * 160934 + 5000) \div 10000)
                 \o " km"
        ELSE PyStr(visibility_statute_mi) \o " miles"

\* Mutant of AviationLayerKept: or in place of and.
AviationLayerKeptEither(l) ==
    \/ Truthy(Get(l, "sky_cover", StrV("")))
    \/ Truthy(Get(l, "cloud_base_ft_agl", StrV("")))

\* The condition that appends a layer: if code and altitude.
AviationLayerKept(l) ==
    /\ Truthy(Get(l, "sky_cover", StrV("")))
    /\ Truthy(Get(l, "cloud_base_ft_agl", StrV("")))

\* cloud_layers after the loop over a list of layer objects.
RECURSIVE AviationCloudLayers(_)
AviationCloudLayers(items) ==
    IF Len(items) = 0 THEN <<>>
    ELSE LET l == Head(items)
             rest == AviationCloudLayers(Tail(items))
         IN  IF AviationLayerKept(l)
             THEN <<LayerEntry(l.sky_cover, l.cloud_base_ft_agl)>> \o rest
             ELSE rest

\* The loop over a sky_condition list raises: an item is no mapping.
AviationCloudsRaises(c) ==
    c.t = "list" /\ \E i \in 1..Len(c.items) : c.items[i].t # "obj"

\* The clouds text of the Fallback schema (lines 188-202): a list of layers,
\* one layer object, or anything else (no cloud data).
AviationClouds(d) ==
    LET c == d.sky_condition
    IN  CASE c.t = "list" ->
               LET cloud_layers == AviationCloudLayers(c.items)
               IN  IF Len(cloud_layers) > 0 THEN JoinComma(cloud_layers)
                   ELSE NoCloudData
          [] c.t = "obj" ->
               IF AviationLayerKept(c)
               THEN LayerEntry(c.sky_cover, c.cloud_base_ft_agl)
               ELSE NoCloudData
          [] OTHER -> NoCloudData

\* The try block of parse_aviationweather_metar raises.
AviationExtractionRaises(d) ==
    \/ d.kind # "map"
    \/ AviationCloudsRaises(d.sky_condition)

\* The text the try block of parse_aviationweather_metar returns.
AviationReport(d) ==
    ReportLines(AviationObsTime(d),
                PyStr(Get(d, "temp_c", NA)),
                WindInfo(Get(d, "wind_dir_degrees", NA),
                         Get(d, "wind_speed_kt", NA),
                         Get(d, "wind_gust_kt", StrV(""))),
                AviationVisibility(d),
                AviationClouds(d),
                PyStr(Get(d, "raw_text", NA)))

\* The except block of parse_aviationweather_metar.
AviationDegraded(d) ==
    <<"Gatwick METAR: " \o PyStr(Get(d, "raw_text", StrV("Data unavailable")))>>

parse_aviationweather_metar(d) ==
    IF ~AviationExtractionRaises(d)
    THEN Returns(AviationReport(d), <<"parse_aviationweather_metar">>)
    ELSE IF d.kind = "map"
    THEN Returns(AviationDegraded(d), <<"parse_aviationweather_metar">>)
    ELSE Raises("object has no attribute 'get'", <<"parse_aviationweather_metar">>)

-----------------------------------------------------------------------------
(* parse_metar_for_human: schema detection and the last-resort handler.    *)

\* key in metar_data raises TypeError: a number, a boolean or None is not
\* iterable.
InRaises(x) == x.kind \notin {"map", "str", "list"}

\* key in metar_data: a key of a mapping, an item of a list, a substring of
\* a text.
In(key, x) ==
    IF x.kind = "map" THEN x[key].t # "absent" ELSE key \in x.contains

\* The except block of parse_metar_for_human (lines 93-101); ran is what the
\* try block ran before it raised.
HumanHandler(x, ran) ==
    IF InRaises(x) THEN Raises("argument is not iterable", ran)
    ELSE IF In("raw_text", x)
    THEN IF x.kind = "map"
         THEN Returns(<<"Gatwick METAR: " \o PyStr(x.raw_text)>>, ran)
         ELSE Raises("indices must be integers", ran)
    ELSE IF In("raw", x)
    THEN IF x.kind = "map"
         THEN Returns(<<"Gatwick METAR: " \o PyStr(x.raw)>>, ran)
         ELSE Raises("indices must be integers", ran)
    ELSE Returns(<<"Sorry, I couldn't parse the METAR data properly.">>, ran)

\* The schema test of line 86.
IsFallbackFormat(x) == In("raw_text", x)

parse_metar_for_human(x) ==
    IF InRaises(x) THEN HumanHandler(x, <<>>)
    ELSE LET r == IF IsFallbackFormat(x) THEN parse_aviationweather_metar(x)
                  ELSE parse_checkwx_metar(x)
         IN  IF r.raised THEN HumanHandler(x, r.ran) ELSE r

-----------------------------------------------------------------------------
(* The observations the providers return.                                  *)

\* A value that is no mapping: text, a list, a number, None. contains holds
\* the marker keys that "key in value" finds in it (substrings of a text,
\* items of a list).
NonMapping(kind, contains, truthy) ==
    [kind |-> kind, contains |-> contains, truthy |-> truthy]

\* Python's None, which both fetch functions return on failure.
None == NonMapping("none", {}, FALSE)

\* The mapping with no key: {}.
EmptyMap ==
    [kind |-> "map", raw_text |-> Absent, raw |-> Absent, observed |-> Absent,
     temperature |-> Absent, wind |-> Absent, visibility |-> Absent,
     clouds |-> Absent, observation_time |-> Absent, temp_c |-> Absent,
     wind_speed_kt |-> Absent, wind_dir_degrees |-> Absent,
     wind_gust_kt |-> Absent, visibility_statute_mi |-> Absent,
     sky_condition |-> Absent]

MapKeys == DOMAIN EmptyMap \ {"kind"}

\* bool(x) of a value the fetch returned: "if metar_data".
ObsTruthy(x) ==
    IF x.kind = "map" THEN \E k \in MapKeys : x[k].t # "absent" ELSE x.truthy

ListV(items) == [t |-> "list", items |-> items]

\* Sequences over S of length at most n.
SeqUpTo(S, n) == UNION {[1..k -> S] : k \in 0..n}

RawCheckwx == StrV("EGKK 010520Z 27015KT 9999 FEW025 12/08 Q1013")

RawAviation == StrV("METAR EGKK 010520Z 27015KT 9999 FEW025 12/08 Q1013")

CheckwxLayer(c, a) == [t |-> "obj", code |-> c, base_feet_agl |-> a]

AviationLayer(c, a) == [t |-> "obj", sky_cover |-> c, cloud_base_ft_agl |-> a]

Covers == {Absent, StrV(""), StrV("BKN")}

Altitudes == {Absent, StrV(""), NumV(0), NumV(2500), StrV("800")}

\* Items of a clouds list: layer objects, and one item that is no mapping.
CheckwxItems == {CheckwxLayer(c, a) : c \in Covers, a \in Altitudes} \cup {StrV("BKN")}

AviationItems == {AviationLayer(c, a) : c \in Covers, a \in Altitudes} \cup {StrV("BKN")}

\* Every shape of the clouds field: missing, null, text, a list of at most
\* MaxLayers items, a single layer object.
CheckwxCloudValues ==
    {Absent, Null, StrV("BKN")}
        \cup {ListV(q) : q \in SeqUpTo(CheckwxItems, MaxLayers)}
        \cup {CheckwxLayer(c, a) : c \in Covers, a \in Altitudes}

AviationCloudValues ==
    {Absent, Null, StrV("BKN")}
        \cup {ListV(q) : q \in SeqUpTo(AviationItems, MaxLayers)}
        \cup {AviationLayer(c, a) : c \in Covers, a \in Altitudes}

Wind(d, sp, g) == [t |-> "obj", degrees |-> d, speed_kts |-> sp, gust_kts |-> g]

\* Primary-schema observations with every field but the clouds varied.
CheckwxFieldObs ==
    { [EmptyMap EXCEPT !.raw = r, !.observed = o, !.temperature = t,
                       !.wind = w, !.visibility = v, !.clouds = c] :
        r \in {Absent, RawCheckwx},
        o \in {Absent, StrV("2024-01-01T05:20Z")},
        t \in {Absent, Null, [t |-> "obj", celsius |-> NumV(12)],
               [t |-> "obj", celsius |-> Absent]},
        w \in {Absent, Null, Wind(NumV(270), NumV(15), Absent),
               Wind(NumV(270), NumV(15), StrV("")),
               Wind(NumV(270), NumV(15), NumV(25))},
        v \in {Absent, Null, [t |-> "obj", meters |-> NumV(9000)],
               [t |-> "obj", meters |-> StrV("9000")],
               [t |-> "obj", meters |-> StrV("abc")],
               [t |-> "obj", meters |-> Absent]},
        c \in {Absent, ListV(<<CheckwxLayer(StrV("BKN"), StrV("2500"))>>),
               CheckwxLayer(StrV("BKN"), StrV("2500"))} }

\* Primary-schema observations with the clouds varied.
CheckwxCloudObs ==
    { [EmptyMap EXCEPT !.raw = RawCheckwx, !.clouds = c] : c \in CheckwxCloudValues }

\* Fallback-schema observations with every field but the clouds varied.
AviationFieldObs ==
    { [EmptyMap EXCEPT !.raw_text = RawAviation, !.raw = r,
                       !.observation_time = o, !.temp_c = t,
                       !.wind_dir_degrees = w[1], !.wind_speed_kt = w[2],
                       !.wind_gust_kt = g, !.visibility_statute_mi = v,
                       !.sky_condition = c] :
        r \in {Absent, RawCheckwx},
        o \in {Absent, Null, StrV("bad")} \cup {StrV(x) : x \in ValidTimes},
        t \in {Absent, Null, NumV(12)},
        w \in {<<Absent, Absent>>, <<NumV(270), NumV(15)>>},
        g \in {Absent, StrV(""), NumV(25)},
        v \in {Absent, StrV("6"), NumV(10), StrV("abc")},
        c \in {Absent, ListV(<<AviationLayer(StrV("BKN"), NumV(2500))>>),
               AviationLayer(StrV("BKN"), NumV(2500)), ListV(<<StrV("BKN")>>)} }

\* Fallback-schema observations with the clouds varied.
AviationCloudObs ==
    { [EmptyMap EXCEPT !.raw_text = RawAviation, !.sky_condition = c] :
        c \in AviationCloudValues }

\* Values that are no mapping: text and lists with and without the marker
\* keys, a number, and the falsy values a result list may hold.
NonMappingObs ==
    { NonMapping("str", {}, TRUE), NonMapping("str", {"raw"}, TRUE),
      NonMapping("str", {"raw", "raw_text"}, TRUE),
      NonMapping("list", {}, TRUE), NonMapping("list", {"raw"}, TRUE),
      NonMapping("list", {"raw_text"}, TRUE),
      NonMapping("num", {}, TRUE), NonMapping("num", {}, FALSE),
      None }

\* Everything data[0] may be.
Observations ==
    CheckwxFieldObs \cup CheckwxCloudObs \cup AviationFieldObs
        \cup AviationCloudObs \cup NonMappingObs \cup {EmptyMap}

\* A few observations, for runs that compare two invocations.
PairObservations ==
    { [EmptyMap EXCEPT !.raw = RawCheckwx],
      [EmptyMap EXCEPT !.raw = RawCheckwx, !.temperature = Null],
      [EmptyMap EXCEPT !.raw_text = RawAviation],
      NonMapping("num", {}, TRUE), EmptyMap }

-----------------------------------------------------------------------------
(* get_gatwick_metar and get_gatwick_metar_fallback.                       *)

\* A provider's answer to one request: "observation" (HTTP 200 with a first
\* result obs), "noresults" (HTTP 200 with an empty result set), "status"
\* (any status but 200), "error" (requests.get raised: network error or
\* timeout), "malformed" (HTTP 200 whose body makes the try block raise).
Response(kind, obs) == [kind |-> kind, obs |-> obs]

NoResponse == Response("none", None)

Failures == {Response(k, None) : k \in {"noresults", "status", "error", "malformed"}}

ProviderResponses(D) == {Response("observation", o) : o \in D} \cup Failures

\* if not CHECKWX_API_KEY (line 23), negated.
UsePrimary == apiKey

\* The spec's name for how the Primary attempt ended.
PrimaryOutcome(resp) ==
    CASE resp.kind = "observation" -> "Observation"
      [] resp.kind = "noresults" -> "NoData"
      [] OTHER -> "SourceUnavailable"

\* Mutant of PrimaryNext: only an empty result set returns; an observation
\* falls through to the fallback.
PrimaryNextFallsThrough(resp) ==
    IF resp.kind = "noresults" THEN "fetched" ELSE "fallback"

\* Where get_gatwick_metar goes after the Primary answer (lines 30-45): it
\* returns on HTTP 200, with or without results, and calls the fallback on
\* any other status and on any exception.
PrimaryNext(resp) ==
    IF resp.kind \in {"observation", "noresults"} THEN "fetched" ELSE "fallback"

\* Mutant of PrimaryData: an empty result set is answered from a module-level
\* cache holding the observation of a remembered earlier invocation.
PrimaryDataCached(resp) ==
    IF resp.kind = "observation" THEN resp.obs
    ELSE IF prev.received.primary.kind = "observation"
    THEN prev.received.primary.obs
    ELSE None

\* What get_gatwick_metar returns on HTTP 200 (lines 31-36).
PrimaryData(resp) == IF resp.kind = "observation" THEN resp.obs ELSE None

FallbackOutcome(resp) ==
    CASE resp.kind = "observation" -> "Observation"
      [] resp.kind = "noresults" -> "NoData"
      [] OTHER -> "SourceUnavailable"

\* What get_gatwick_metar_fallback returns (lines 58-71): every failure,
\* its own exceptions included, ends in None.
FallbackData(resp) == IF resp.kind = "observation" THEN resp.obs ELSE None

-----------------------------------------------------------------------------
(* send_whatsapp_message.                                                  *)

\* What happens inside the sink: a credential is missing, the Twilio client
\* raises, or the message is created.
SinkOutcomes == {"no_credentials", "twilio_error", "created"}

\* Mutant of send_whatsapp_message: a Twilio error is not caught.
send_whatsapp_message_uncaught(o) ==
    CASE o = "created" -> "True"
      [] o = "twilio_error" -> "raise"
      [] OTHER -> "False"

\* The sink's result: it catches every exception and returns a boolean.
send_whatsapp_message(o) == IF o = "created" THEN "True" ELSE "False"

-----------------------------------------------------------------------------
(* webhook.                                                                *)

FailureMsg ==
    <<"Sorry, I couldn't retrieve the Gatwick METAR data at the moment. Please try again later.">>

HelpMsg ==
    <<"To get the latest Gatwick Airport METAR information, please send a message containing 'metar', 'weather', or 'gatwick'.">>

ErrorMsg(e) == <<"Sorry, there was an error retrieving the Gatwick METAR: " \o e>>

\* Mutant of HasData: the test for missing data is left out.
HasDataUnchecked(m) == TRUE

\* if metar_data (line 38)
HasData(m) == ObsTruthy(m)

NoPrev ==
    [valid |-> FALSE, request |-> "none",
     received |-> [primary |-> NoResponse, fallback |-> NoResponse],
     calls |-> <<>>, sent |-> <<>>, response |-> "none",
     failedSince |-> FALSE]

\* The finished invocation: what it was given and what it did.
Snapshot ==
    [valid |-> TRUE, request |-> request, received |-> received,
     calls |-> calls, sent |-> sent, response |-> response,
     failedSince |-> FALSE]

\* The remembered invocation, kept while the finished one is forgotten;
\* failedSince notes that an invocation that produced no report (a failed or
\* degraded one) has run since.
Kept ==
    [prev EXCEPT !.failedSince = @ \/ (prev.valid /\ Len(parse.text) # 7)]

Init ==
    /\ apiKey \in BOOLEAN
    /\ pc = "idle"
    /\ request = "none"
    /\ calls = <<>>
    /\ primaryOutcome = "none"
    /\ fallbackOutcome = "none"
    /\ received = [primary |-> NoResponse, fallback |-> NoResponse]
    /\ metar_data = None
    /\ parse = NotCalled
    /\ outbox = <<>>
    /\ handler = "none"
    /\ sent = <<>>
    /\ delivered = <<>>
    /\ response = "none"
    /\ prev = NoPrev

\* A request arrives: the handler reads Body and From (lines 27-29) and tests
\* the trigger keywords (line 34). Reading raises: the outer except returns
\* 500 (lines 63-65). With track, the finished invocation may be remembered.
Receive(track) ==
    /\ pc = "idle"
    /\ \E r \in {"unreadable", "keyword", "other"} :
        /\ request' = r
        /\ pc' = CASE r = "unreadable" -> "idle"
                   [] r = "keyword" -> "fetch"
                   [] OTHER -> "send"
        /\ response' = IF r = "unreadable" THEN "500" ELSE "none"
        /\ outbox' = IF r = "other" THEN HelpMsg ELSE <<>>
        /\ handler' = IF r = "other" THEN "outer" ELSE "none"
    /\ calls' = <<>>
    /\ primaryOutcome' = "none"
    /\ fallbackOutcome' = "none"
    /\ received' = [primary |-> NoResponse, fallback |-> NoResponse]
    /\ metar_data' = None
    /\ parse' = NotCalled
    /\ sent' = <<>>
    /\ delivered' = <<>>
    /\ prev' \in IF track /\ response # "none" THEN {Kept, Snapshot} ELSE {prev}
    /\ UNCHANGED apiKey

\* get_gatwick_metar without an API key (lines 23-25): no Primary request.
PrimaryUnconfigured ==
    /\ pc = "fetch"
    /\ ~UsePrimary
    /\ primaryOutcome' = "Unconfigured"
    /\ pc' = "fallback"
    /\ UNCHANGED <<apiKey, request, calls, fallbackOutcome, received,
                   metar_data, parse, outbox, handler, sent, delivered,
                   response, prev>>

\* get_gatwick_metar with an API key (lines 27-45): one Primary request.
PrimaryRequest(D) ==
    /\ pc = "fetch"
    /\ UsePrimary
    /\ \E resp \in ProviderResponses(D) :
        /\ calls' = Append(calls, "primary")
        /\ received' = [received EXCEPT !.primary = resp]
        /\ primaryOutcome' = PrimaryOutcome(resp)
        /\ pc' = PrimaryNext(resp)
        /\ metar_data' = PrimaryData(resp)
    /\ UNCHANGED <<apiKey, request, fallbackOutcome, parse, outbox, handler,
                   sent, delivered, response, prev>>

\* get_gatwick_metar_fallback (lines 54-71): one Fallback request.
FallbackRequest(D) ==
    /\ pc = "fallback"
    /\ \E resp \in ProviderResponses(D) :
        /\ calls' = Append(calls, "fallback")
        /\ received' = [received EXCEPT !.fallback = resp]
        /\ fallbackOutcome' = FallbackOutcome(resp)
        /\ metar_data' = FallbackData(resp)
    /\ pc' = "fetched"
    /\ UNCHANGED <<apiKey, request, primaryOutcome, parse, outbox, handler,
                   sent, delivered, response, prev>>

\* webhook, lines 38-52 up to the send: parse the data if there is any; a
\* parser exception lands in the except block of the inner try.
Parse ==
    /\ pc = "fetched"
    /\ IF HasData(metar_data)
       THEN LET r == parse_metar_for_human(metar_data)
            IN  /\ parse' = r
                /\ outbox' = IF r.raised THEN ErrorMsg(r.exc) ELSE r.text
                /\ handler' = IF r.raised THEN "except" ELSE "try"
       ELSE /\ parse' = parse
            /\ outbox' = FailureMsg
            /\ handler' = "try"
    /\ pc' = "send"
    /\ UNCHANGED <<apiKey, request, calls, primaryOutcome, fallbackOutcome,
                   received, metar_data, sent, delivered, response, prev>>

\* webhook hands outbox to the sink and returns (lines 42, 46, 51, 57, 61).
\* Were the sink to raise inside the inner try, its except block would send
\* the error message; anywhere else the outer except returns 500.
Send ==
    /\ pc = "send"
    /\ \E o \in SinkOutcomes :
        LET r == send_whatsapp_message(o)
        IN  /\ sent' = Append(sent, outbox)
            /\ delivered' = Append(delivered, r)
            /\ IF r = "raise" /\ handler = "try"
               THEN /\ pc' = "send"
                    /\ outbox' = ErrorMsg("sink")
                    /\ handler' = "except"
                    /\ response' = response
               ELSE /\ pc' = "idle"
                    /\ outbox' = outbox
                    /\ handler' = handler
                    /\ response' = IF r = "raise" THEN "500" ELSE "200"
    /\ UNCHANGED <<apiKey, request, calls, primaryOutcome, fallbackOutcome,
                   received, metar_data, parse, prev>>

Next ==
    \/ Receive(FALSE)
    \/ PrimaryUnconfigured
    \/ PrimaryRequest(Observations)
    \/ FallbackRequest(Observations)
    \/ Parse
    \/ Send

Spec == Init /\ [][Next]_vars

\* Runs that remember an earlier invocation, over a few observations.
NextPair ==
    \/ Receive(TRUE)
    \/ PrimaryUnconfigured
    \/ PrimaryRequest(PairObservations)
    \/ FallbackRequest(PairObservations)
    \/ Parse
    \/ Send

SpecPair == Init /\ [][NextPair]_vars

-----------------------------------------------------------------------------
(* Properties.                                                             *)

\* The invocation has returned.
Done == pc = "idle" /\ response # "none"

Count(q, x) == Cardinality({i \in 1..Len(q) : q[i] = x})

PrimaryFailed == primaryOutcome \in {"Unconfigured", "NoData", "SourceUnavailable"}

FallbackFailed == fallbackOutcome \in {"NoData", "SourceUnavailable"}

\* C1 (as claimed): once get_gatwick_metar has returned, every kind of
\* Primary failure (Unconfigured, NoData, SourceUnavailable) has been
\* followed by a Fallback request.
C1_FallbackAfterEveryPrimaryFailure ==
    (pc \in {"fetched", "send"} \/ Done) /\ PrimaryFailed
        => Count(calls, "fallback") >= 1

\* C2: in one invocation the Primary is requested at most once and the
\* Fallback at most once, a Fallback request comes only after the Primary
\* attempt ended in failure (never before a Primary request), and when the
\* Primary returned an observation the Fallback is not called.
C2_OneAttemptPerSource ==
    /\ Count(calls, "primary") <= 1
    /\ Count(calls, "fallback") <= 1
    /\ Count(calls, "fallback") >= 1 => PrimaryFailed
    /\ \A i, j \in 1..Len(calls) :
          calls[i] = "fallback" /\ calls[j] = "primary" => j < i
    /\ primaryOutcome = "Observation" => Count(calls, "fallback") = 0

\* C2 witness: an invocation returned after a failed Primary request and a
\* Fallback request that brought an observation.
C2_Witness ==
    /\ Done
    /\ calls = <<"primary", "fallback">>
    /\ primaryOutcome = "SourceUnavailable"
    /\ fallbackOutcome = "Observation"

\* C3: when both sources failed in an invocation, parse_metar_for_human is
\* not run, no text handed to the sink holds the header line, and the text
\* delivered is the retrieval-failure message.
C3_BothFailDiagnostic ==
    PrimaryFailed /\ FallbackFailed
        => /\ ~parse.called
           /\ \A i \in 1..Len(sent) : \A k \in 1..Len(sent[i]) : sent[i][k] # HeaderLine
           /\ \A k \in 1..Len(outbox) : outbox[k] # HeaderLine
           /\ Done => sent = <<FailureMsg>>

\* C3 witness: an invocation returned after both sources failed, having
\* made both requests.
C3_Witness ==
    /\ Done
    /\ PrimaryFailed /\ FallbackFailed
    /\ calls = <<"primary", "fallback">>
    /\ Len(sent) = 1

\* C4 (as claimed): parse_metar_for_human raises for no truthy value a
\* source client returns.
C4_ParserNeverRaises == parse.called => ~parse.raised

\* C5 (as claimed): the text parse_metar_for_human returns for a mapping
\* (here: one whose cloud field has a documented shape, so that only a
\* missing, null or unconvertible field is at stake) has the seven display
\* lines, the header first, none of them empty.
C5_SevenLines ==
    ( /\ parse.called
      /\ metar_data.kind = "map"
      /\ ~CheckwxCloudsRaises(metar_data.clouds)
      /\ ~AviationCloudsRaises(metar_data.sky_condition) )
        => /\ ~parse.raised
           /\ Len(parse.text) = 7
           /\ parse.text[1] = HeaderLine
           /\ \A k \in 1..Len(parse.text) : parse.text[k] # ""

\* The schema extraction that ran on mapping d raised.
ExtractionFailed(d) ==
    IF d.raw_text.t # "absent" THEN AviationExtractionRaises(d)
    ELSE CheckwxExtractionRaises(d)

\* C6: when extraction fails for a mapping that has the key "raw" or
\* "raw_text", the returned text is the raw text of one of the keys it has;
\* and the outputs "Data unavailable" and "couldn't parse" are returned only
\* for a value with neither key.
C6_RawTextSurvives ==
    parse.called
        => /\ ( /\ metar_data.kind = "map"
                /\ ExtractionFailed(metar_data)
                /\ \E k \in {"raw", "raw_text"} : metar_data[k].t # "absent" )
              => /\ ~parse.raised
                 /\ \E k \in {"raw", "raw_text"} :
                       /\ metar_data[k].t # "absent"
                       /\ parse.text = <<"Gatwick METAR: " \o PyStr(metar_data[k])>>
           /\ parse.text \in {<<"Gatwick METAR: Data unavailable">>,
                              <<"Sorry, I couldn't parse the METAR data properly.">>}
              => \/ metar_data.kind # "map"
                 \/ \A k \in {"raw", "raw_text"} : metar_data[k].t = "absent"

\* C6 witness: a Primary-schema mapping with a raw text whose extraction
\* failed came back as that raw text.
C6_Witness ==
    /\ parse.called
    /\ metar_data.kind = "map"
    /\ metar_data.raw_text.t = "absent"
    /\ metar_data.raw = RawCheckwx
    /\ CheckwxExtractionRaises(metar_data)
    /\ parse.text = <<"Gatwick METAR: " \o RawCheckwx.s>>

\* x is a mapping with the key "raw_text".
HasMarkerKey(x) == x.kind = "map" /\ x.raw_text.t # "absent"

\* C7 (as claimed): exactly one schema extraction runs per observation,
\* the Fallback one if the observation has the key "raw_text" and the
\* Primary one if it lacks it.
C7_MarkerDecidesSchema ==
    parse.called
        => parse.ran = IF HasMarkerKey(metar_data)
                       THEN <<"parse_aviationweather_metar">>
                       ELSE <<"parse_checkwx_metar">>

\* The cloud field of mapping d under the schema that parses it.
CloudField(d) == IF d.raw_text.t # "absent" THEN d.sky_condition ELSE d.clouds

LayerCover(l) == IF "code" \in DOMAIN l THEN l.code ELSE l.sky_cover

LayerAltitude(l) ==
    IF "base_feet_agl" \in DOMAIN l THEN l.base_feet_agl ELSE l.cloud_base_ft_agl

\* The layer has both a cover and an altitude, present and non-empty (a
\* missing key, null, "" and 0 count as empty).
LayerShown(l) == Truthy(LayerCover(l)) /\ Truthy(LayerAltitude(l))

\* The entries the claim expects of a sequence of layer objects, in order.
RECURSIVE ExpectedEntries(_)
ExpectedEntries(layers) ==
    IF Len(layers) = 0 THEN <<>>
    ELSE IF LayerShown(Head(layers))
    THEN <<PyStr(LayerCover(Head(layers))) \o " at "
             \o PyStr(LayerAltitude(Head(layers))) \o " ft">>
             \o ExpectedEntries(Tail(layers))
    ELSE ExpectedEntries(Tail(layers))

\* The clouds line the claim expects of a sequence of layer objects.
ExpectedCloudsLine(layers) ==
    "[cloud] Clouds: " \o
        IF ExpectedEntries(layers) = <<>> THEN "No cloud data"
        ELSE JoinComma(ExpectedEntries(layers))

\* The cloud field is a list of layer objects.
IsLayerList(c) == c.t = "list" /\ \A i \in 1..Len(c.items) : c.items[i].t = "obj"

\* No field but the clouds makes the Primary extraction raise.
OtherFieldsFine(d) ==
    \/ d.raw_text.t # "absent"
    \/ ~ \/ NestedRaises(d, "temperature")
         \/ NestedRaises(d, "wind")
         \/ NestedRaises(d, "visibility")
         \/ CheckwxVisibilityRaises(d)

\* The clouds line of the report is the expected one.
CloudsLineIs(layers) ==
    /\ ~parse.raised
    /\ Len(parse.text) = 7
    /\ parse.text[6] = ExpectedCloudsLine(layers)

RenderedLayers(d) ==
    LET c == CloudField(d)
    IN  IF IsLayerList(c) THEN c.items
        ELSE IF c.t = "obj" /\ HasMarkerKey(d) THEN <<c>>
        ELSE <<>>

C9_InvocationsIndependent ==
    Done /\ prev.valid /\ prev.request = request /\ prev.received = received
        => /\ prev.calls = calls
           /\ prev.sent = sent
           /\ prev.response = response

\* C9 witness: an invocation produced a report on the same inputs as a
\* remembered earlier one, a failed or degraded invocation having run in
\* between.
C9_Witness ==
    /\ Done
    /\ prev.valid
    /\ prev.failedSince
    /\ prev.request = request
    /\ prev.received = received
    /\ request = "keyword"
    /\ parse.called
    /\ Len(parse.text) = 7

\* C10: an invocation that read its request and returned has called the
\* sink exactly once, with the report, the retrieval-failure message, the
\* error message or the help message as the case may be, and returned 200;
\* and no invocation calls the sink twice.
C10_OneMessagePerRequest ==
    /\ Len(sent) <= 1
    /\ Done /\ request # "unreadable"
        => /\ response = "200"
           /\ Len(delivered) = 1
           /\ sent = << CASE request = "other" -> HelpMsg
                          [] ~parse.called -> FailureMsg
                          [] parse.raised -> ErrorMsg(parse.exc)
                          [] OTHER -> parse.text >>
           /\ parse.called <=> request = "keyword" /\ ObsTruthy(metar_data)

\* C10 witness: the parser raised, the error message went to the sink once,
\* and the sink reported failure.
C10_Witness ==
    /\ Done
    /\ request = "keyword"
    /\ parse.raised
    /\ Len(sent) = 1
    /\ delivered = <<"False">>

=============================================================================
